---- MODULE Spec2Model ----
(***************************************************************************)
(* A model of loremipsum/generator.py: the Sample model builder (analysis  *)
(* of a corpus and a lexicon, canonical freezing and thawing) and the      *)
(* Generator's random walk over the word-length Markov chain.              *)
(*                                                                         *)
(* A Python str is a sequence of one-character strings, a list or tuple a  *)
(* sequence, and a dict a sequence of <<key, value>> pairs in insertion    *)
(* order (the order list(d) and d.items() iterate in).                     *)
(***************************************************************************)
EXTENDS Integers, Sequences, FiniteSets, TLC

VARIABLES
    sample,      \* Generator._sample (the Sample's _s mapping), or None
    outcome,     \* how the last Sample construction ended: "ok" or the error raised
    origin,      \* the constructor path of the last construction
    input,       \* the text and lexicon given to Sample.cooked
    frozen_in,   \* frozen() of the Sample the last construction was derived from
    derived,     \* how many Samples were derived from the analysed one so far
    op,          \* the Generator method being run, "idle" when none
    pc,          \* position inside the running method
    args,        \* the keyword arguments of the running top-level call
    sent,        \* locals of the running generate_sentence
    sents,       \* frame of the running generate_sentences generator
    para,        \* locals of the running generate_paragraph
    paras,       \* frame of the running generate_paragraphs generator
    result       \* the value last returned or yielded to the caller

vars == <<sample, outcome, origin, input, frozen_in, derived, op, pc, args, sent, sents, para, paras, result>>

(***************************************************************************)
(* Bounds of the model.                                                    *)
(***************************************************************************)
MaxTextLen == 4
MaxDerivations == 2
MaxSentenceLen == 3
MaxInnerSentenceLen == 1
MaxParagraphLen == 2
MaxAmount == 2
MaxWordLen == 3

(***************************************************************************)
(* Characters and Python's str helpers.                                    *)
(***************************************************************************)
Whitespace == {" ", "\n"}

\* ord(c) for the characters of the model; "" (no delimiter) sorts first.
Ord(c) ==
    CASE c = "" -> 0
      [] c = "\n" -> 10
      [] c = " " -> 32
      [] c = "!" -> 33
      [] c = "," -> 44
      [] c = "." -> 46
      [] c = "A" -> 65
      [] c = "B" -> 66
      [] c = "C" -> 67
      [] c = "a" -> 97
      [] c = "b" -> 98
      [] c = "c" -> 99

Upper(c) == CASE c = "a" -> "A" [] c = "b" -> "B" [] c = "c" -> "C" [] OTHER -> c
Lower(c) == CASE c = "A" -> "a" [] c = "B" -> "b" [] c = "C" -> "c" [] OTHER -> c

InStr(c, s) == \E i \in 1..Len(s) : s[i] = c

Min2(a, b) == IF a <= b THEN a ELSE b
Abs(x) == IF x < 0 THEN -x ELSE x

\* s[:n] for n >= 0
Take(s, n) == SubSeq(s, 1, Min2(n, Len(s)))

RECURSIVE LStrip(_, _)
LStrip(s, cs) == IF s # <<>> /\ Head(s) \in cs THEN LStrip(Tail(s), cs) ELSE s

RECURSIVE RStrip(_, _)
RStrip(s, cs) ==
    IF s # <<>> /\ s[Len(s)] \in cs THEN RStrip(SubSeq(s, 1, Len(s) - 1), cs) ELSE s

\* str.strip(chars)
Strip(s, cs) == RStrip(LStrip(s, cs), cs)

\* str.split(): the maximal runs of non-whitespace characters
RECURSIVE SplitFrom(_, _, _, _)
SplitFrom(s, i, cur, acc) ==
    IF i > Len(s) THEN (IF cur = <<>> THEN acc ELSE Append(acc, cur))
    ELSE IF s[i] \in Whitespace
         THEN SplitFrom(s, i + 1, <<>>, IF cur = <<>> THEN acc ELSE Append(acc, cur))
         ELSE SplitFrom(s, i + 1, Append(cur, s[i]), acc)

Split(s) == SplitFrom(s, 1, <<>>, <<>>)

\* str.split('\n\n'): the pieces between non-overlapping blank-line separators
RECURSIVE SplitParaFrom(_, _, _, _)
SplitParaFrom(s, i, cur, acc) ==
    IF i > Len(s) THEN Append(acc, cur)
    ELSE IF i < Len(s) /\ s[i] = "\n" /\ s[i + 1] = "\n"
         THEN SplitParaFrom(s, i + 2, <<>>, Append(acc, cur))
         ELSE SplitParaFrom(s, i + 1, Append(cur, s[i]), acc)

SplitParagraphs(s) == SplitParaFrom(s, 1, <<>>, <<>>)

\* ' '.join(list)
RECURSIVE Join(_)
Join(l) ==
    IF l = <<>> THEN <<>>
    ELSE IF Len(l) = 1 THEN l[1]
    ELSE l[1] \o <<" ">> \o Join(Tail(l))

\* str.capitalize(): first character upper-cased, the rest lower-cased
Capitalize(s) ==
    [i \in 1..Len(s) |-> IF i = 1 THEN Upper(s[i]) ELSE Lower(s[i])]

RECURSIVE SumSeq(_)
SumSeq(l) == IF l = <<>> THEN 0 ELSE Head(l) + SumSeq(Tail(l))

RECURSIVE Concat(_)
Concat(l) == IF l = <<>> THEN <<>> ELSE Head(l) \o Concat(Tail(l))

RECURSIVE Gcd(_, _)
Gcd(a, b) == IF b = 0 THEN a ELSE Gcd(b, a % b)

\* a float quotient num / den, kept exact as a reduced fraction
Frac(num, den) == LET g == Gcd(num, den) IN <<num \div g, den \div g>>

(***************************************************************************)
(* Python's ordering of the values frozen() sorts.                         *)
(***************************************************************************)
RECURSIVE StrLess(_, _)
StrLess(a, b) ==
    IF b = <<>> THEN FALSE
    ELSE IF a = <<>> THEN TRUE
    ELSE IF Head(a) # Head(b) THEN Ord(Head(a)) < Ord(Head(b))
    ELSE StrLess(Tail(a), Tail(b))

\* states: pairs of word lengths
StateLess(a, b) == a[1] < b[1] \/ (a[1] = b[1] /\ a[2] < b[2])

\* transitions: (word length, delimiter)
TransLess(a, b) == a[1] < b[1] \/ (a[1] = b[1] /\ Ord(a[2]) < Ord(b[2]))

\* x < y for the kinds of value frozen() sorts: dictionary items by word length
\* and chains items by state (keys are unique, so values are never compared)
PyLess(kind, a, b) ==
    CASE kind = "str" -> StrLess(a, b)
      [] kind = "state" -> StateLess(a, b)
      [] kind = "transition" -> TransLess(a, b)
      [] kind = "dictionary_item" -> a[1] < b[1]
      [] kind = "chains_item" -> StateLess(a[1], b[1])

RECURSIVE InsertSorted(_, _, _)
InsertSorted(x, l, kind) ==
    IF l = <<>> THEN <<x>>
    ELSE IF PyLess(kind, x, Head(l)) THEN <<x>> \o l
    ELSE <<Head(l)>> \o InsertSorted(x, Tail(l), kind)

\* sorted(l)
RECURSIVE Sorted(_, _)
Sorted(l, kind) ==
    IF l = <<>> THEN <<>> ELSE InsertSorted(Head(l), Sorted(Tail(l), kind), kind)

(***************************************************************************)
(* dict: a sequence of <<key, value>> pairs with unique keys, in insertion *)
(* order.                                                                  *)
(***************************************************************************)
Keys(d) == [i \in 1..Len(d) |-> d[i][1]]
KeySet(d) == {d[i][1] : i \in 1..Len(d)}
HasKey(d, k) == \E i \in 1..Len(d) : d[i][1] = k
Get(d, k) == d[CHOOSE i \in 1..Len(d) : d[i][1] = k][2]

\* d.setdefault(k, list()).append(v): a new key goes last, an old key keeps its place
AppendTo(d, k, v) ==
    IF HasKey(d, k)
    THEN [i \in 1..Len(d) |-> IF d[i][1] = k THEN <<k, Append(d[i][2], v)>> ELSE d[i]]
    ELSE Append(d, <<k, <<v>>>>)

SeqToSet(l) == {l[i] : i \in 1..Len(l)}

(***************************************************************************)
(* Sample                                                                  *)
(***************************************************************************)
\* Generator(sample=None)
None == [none |-> TRUE]

\* _mean(values); the caller raises ZeroDivisionError for an empty list
Mean(values) == Frac(SumSeq(values), Len(values))

\* _sigma(values) = sqrt(v): kept as the exact fraction v under the root
Sigma(values) ==
    LET n == Len(values)
        sq == [i \in 1..n |-> values[i] * values[i]]
    IN  Frac(n * SumSeq(sq) - SumSeq(values) * SumSeq(values), n * n)

\* Sample._find_sentences: the matches of ([^d])*[d], each a maximal run of
\* non-delimiter characters and the delimiter that ends it
RECURSIVE FindSentencesFrom(_, _, _, _, _)
FindSentencesFrom(s, sd, i, cur, acc) ==
    IF i > Len(s) THEN acc
    ELSE IF InStr(s[i], sd)
         THEN FindSentencesFrom(s, sd, i + 1, <<>>, Append(acc, Append(cur, s[i])))
         ELSE FindSentencesFrom(s, sd, i + 1, Append(cur, s[i]), acc)

FindSentences(text, sd) == FindSentencesFrom(Strip(text, Whitespace), sd, 1, <<>>, <<>>)

\* Sample._find_words, each match stripped: the whitespace-separated tokens
FindWords(text) == Split(Strip(text, Whitespace))

\* the loop stripping trailing word delimiters: <<word, delimiter>>
RECURSIVE StripDelimiters(_, _, _)
StripDelimiters(word, delimiter, wd) ==
    IF word # <<>> /\ InStr(word[Len(word)], wd)
    THEN StripDelimiters(SubSeq(word, 1, Len(word) - 1), word[Len(word)], wd)
    ELSE <<word, delimiter>>

\* the dictionary loop of _cook
RECURSIVE BuildDictionary(_, _)
BuildDictionary(words, d) ==
    IF words = <<>> THEN d
    ELSE BuildDictionary(Tail(words), AppendTo(d, Len(Head(words)), Head(words)))

\* the word loop of _cook over the tokens of every sentence, in text order;
\* acc is [chains, starts, previous]
RECURSIVE Analyse(_, _, _)
Analyse(tokens, wd, acc) ==
    IF tokens = <<>> THEN acc
    ELSE LET sw == StripDelimiters(Head(tokens), "", wd)
             word == sw[1]
             delimiter == sw[2]
         IN  IF word = <<>> THEN Analyse(Tail(tokens), wd, acc)
             ELSE Analyse(Tail(tokens), wd,
                    [chains |-> AppendTo(acc.chains, acc.previous, <<Len(word), delimiter>>),
                     starts |-> IF delimiter # "" THEN Append(acc.starts, acc.previous)
                                ELSE acc.starts,
                     previous |-> <<acc.previous[2], Len(word)>>])

\* Sample._taste: the error it raises, "ok" when none
Taste(s) ==
    IF s.dictionary = <<>> THEN "ValueError"
    ELSE IF s.chains = <<>> THEN "ValueError"
    ELSE "ok"

\* us = lambda s: unicode_str(s).strip('\n')
Us(x) == Strip(x, {"\n"})

\* the sentences _cook finds in each paragraph of the text
ParagraphSentences(text, sentence_delimiters) ==
    LET paragraphs == SplitParagraphs(Us(text))
    IN  [i \in 1..Len(paragraphs) |->
            FindSentences(Strip(paragraphs[i], Whitespace), Us(sentence_delimiters))]

\* the words _cook finds, sentence after sentence
Tokens(text, sentence_delimiters) ==
    LET sentences == Concat(ParagraphSentences(text, sentence_delimiters))
    IN  Concat([i \in 1..Len(sentences) |-> FindWords(sentences[i])])

\* Sample._cook: [error, s]
Cook(text, lexicon, word_delimiters, sentence_delimiters) ==
    LET us(x) == Us(x)
        t == us(text)
        per_paragraph == ParagraphSentences(text, sentence_delimiters)
        sentences == Concat(per_paragraph)
        paragraphs_lens == [i \in 1..Len(per_paragraph) |-> Len(per_paragraph[i])]
        sentences_lens == [i \in 1..Len(sentences) |-> Len(FindWords(sentences[i]))]
        a == Analyse(Tokens(text, sentence_delimiters), us(word_delimiters),
                     [chains |-> <<>>, starts |-> << <<0, 0>> >>, previous |-> <<0, 0>>])
        base == [text |-> t,
                 lexicon |-> us(lexicon),
                 word_delimiters |-> us(word_delimiters),
                 sentence_delimiters |-> us(sentence_delimiters),
                 chains |-> a.chains,
                 starts |-> a.starts,
                 dictionary |-> BuildDictionary(Split(us(lexicon)), <<>>)]
    IN  IF sentences_lens = <<>> THEN [error |-> "ZeroDivisionError", s |-> None]
        ELSE LET s == [text |-> base.text,
                       lexicon |-> base.lexicon,
                       word_delimiters |-> base.word_delimiters,
                       sentence_delimiters |-> base.sentence_delimiters,
                       chains |-> base.chains,
                       starts |-> base.starts,
                       dictionary |-> base.dictionary,
                       incipit |-> sentences[1],
                       sentence_mean |-> Mean(sentences_lens),
                       sentence_sigma |-> Sigma(sentences_lens),
                       paragraph_mean |-> Mean(paragraphs_lens),
                       paragraph_sigma |-> Sigma(paragraphs_lens)]
             IN  IF Taste(s) = "ok" THEN [error |-> "ok", s |-> s]
                 ELSE [error |-> Taste(s), s |-> None]

\* a frozen dictionary whose word lists keep their insertion order
FrozenDictionaryUnsorted(dictionary) == Sorted(dictionary, "dictionary_item")

\* ts((k, ts(v)) for k, v in _s['dictionary'].items())
FrozenDictionary(dictionary) ==
    Sorted([i \in 1..Len(dictionary) |->
               <<dictionary[i][1], Sorted(dictionary[i][2], "str")>>],
           "dictionary_item")

\* ts((k, ts(v)) for k, v in _s['chains'].items())
FrozenChains(chains) ==
    Sorted([i \in 1..Len(chains) |-> <<chains[i][1], Sorted(chains[i][2], "transition")>>],
           "chains_item")

\* Sample.frozen: tuple(sorted(_s.items())), the items in the order of their keys
Frozen(s) ==
        << <<"chains", FrozenChains(s.chains)>>,
           <<"dictionary", FrozenDictionary(s.dictionary)>>,
           <<"incipit", s.incipit>>,
           <<"lexicon", s.lexicon>>,
           <<"paragraph_mean", s.paragraph_mean>>,
           <<"paragraph_sigma", s.paragraph_sigma>>,
           <<"sentence_delimiters", s.sentence_delimiters>>,
           <<"sentence_mean", s.sentence_mean>>,
           <<"sentence_sigma", s.sentence_sigma>>,
           <<"starts", Sorted(s.starts, "state")>>,
           <<"text", s.text>>,
           <<"word_delimiters", s.word_delimiters>> >>

\* Sample._reheat: [error, s]; dict(frozen) keeps the tuple's order as its
\* insertion order
Reheat(frozen) ==
    LET s == [text |-> Get(frozen, "text"),
              lexicon |-> Get(frozen, "lexicon"),
              word_delimiters |-> Get(frozen, "word_delimiters"),
              sentence_delimiters |-> Get(frozen, "sentence_delimiters"),
              chains |-> Get(frozen, "chains"),
              starts |-> Get(frozen, "starts"),
              dictionary |-> Get(frozen, "dictionary"),
              incipit |-> Get(frozen, "incipit"),
              sentence_mean |-> Get(frozen, "sentence_mean"),
              sentence_sigma |-> Get(frozen, "sentence_sigma"),
              paragraph_mean |-> Get(frozen, "paragraph_mean"),
              paragraph_sigma |-> Get(frozen, "paragraph_sigma")]
    IN  IF Taste(s) = "ok" THEN [error |-> "ok", s |-> s]
        ELSE [error |-> Taste(s), s |-> None]

\* Sample.__init__ with text, lexicon, word_delimiters and sentence_delimiters:
\* all(ingredients) takes an empty string for a missing argument
Cooked(text, lexicon, word_delimiters, sentence_delimiters) ==
    IF text = <<>> \/ lexicon = <<>> \/ word_delimiters = <<>> \/ sentence_delimiters = <<>>
    THEN [error |-> "TypeError", s |-> None]
    ELSE Cook(text, lexicon, word_delimiters, sentence_delimiters)

\* Sample.__init__ with frozen
Thawed(frozen) ==
    IF frozen = <<>> THEN [error |-> "TypeError", s |-> None] ELSE Reheat(frozen)

\* Sample.__init__ with sample, a Sample or a mapping: copied, never tasted
Duplicated(mapping) == [error |-> "ok", s |-> mapping]

(***************************************************************************)
(* Inputs of the construction paths.                                       *)
(***************************************************************************)
WordDelimiters == <<",", ".">>
SentenceDelimiters == <<".">>

\* corpus/lexicon pairs the generator is run on:
\*   "ab ba."            with "ab ba"   (one bucket of two words)
\*   "ab."               with "abc a"   (lengths 3 and 1, equally close to 2)
\*   "ab, ab."           with "ab ab"   (a lexicon repeating a word)
\*   "a, ab. b.\n\nab."  with "a b ab"  (two paragraphs, a comma)
Corpora ==
    { [text |-> <<"a", "b", " ", "b", "a", ".">>,
       lexicon |-> <<"a", "b", " ", "b", "a">>],
      [text |-> <<"a", "b", ".">>,
       lexicon |-> <<"a", "b", "c", " ", "a">>],
      [text |-> <<"a", "b", ",", " ", "a", "b", ".">>,
       lexicon |-> <<"a", "b", " ", "a", "b">>],
      [text |-> <<"a", ",", " ", "a", "b", ".", " ", "b", ".", "\n", "\n", "a", "b", ".">>,
       lexicon |-> <<"a", " ", "b", " ", "a", "b">>] }

\* every text of at most MaxTextLen pieces, a piece being a letter, a comma, a
\* period, a space or a blank line
TextPieces == {<<"a">>, <<",">>, <<".">>, <<" ">>, <<"\n", "\n">>}
Texts == {Concat(p) : p \in UNION {[1..n -> TextPieces] : n \in 0..MaxTextLen}}

\* lexicons: none, blank, two words of one length, two words of two lengths
Lexicons ==
    { <<>>,
      <<" ">>,
      <<"a", " ", "b">>,
      <<"a", "b", " ", "a">> }

Analysed == [text : Texts, lexicon : Lexicons] \cup Corpora

Reverse(l) == [i \in 1..Len(l) |-> l[Len(l) + 1 - i]]

\* a mapping holding the content of s with its dictionary and buckets (rd) and
\* its chains, transition lists and starts (rc) inserted in the reverse order
Reordered(s, rd, rc) ==
    LET rev(d, r) ==
            IF r THEN Reverse([i \in 1..Len(d) |-> <<d[i][1], Reverse(d[i][2])>>]) ELSE d
    IN  [s EXCEPT !.dictionary = rev(s.dictionary, rd),
                  !.chains = rev(s.chains, rc),
                  !.starts = IF rc THEN Reverse(s.starts) ELSE s.starts]

\* the keyword arguments given to Generator.default
Overrides == {"sentence_mean", "dictionary", "chains"}

\* copy.update(args)
Update(s, key) ==
    CASE key = "sentence_mean" -> [s EXCEPT !.sentence_mean = <<1, 1>>]
      [] key = "dictionary" -> [s EXCEPT !.dictionary = <<>>]
      [] key = "chains" -> [s EXCEPT !.chains = <<>>]

Idle ==
    /\ op = "idle"
    /\ pc = "idle"

GenUnchanged == UNCHANGED <<op, pc, args, sent, sents, para, paras, result>>

\* Generator(Sample.cooked(text, lexicon, word_delimiters, sentence_delimiters))
NewCooked(text, lexicon) ==
    /\ Idle
    /\ origin = "none"
    /\ LET r == Cooked(text, lexicon, WordDelimiters, SentenceDelimiters)
       IN  /\ outcome' = r.error
           /\ sample' = r.s
    /\ origin' = "cooked"
    /\ input' = [text |-> text, lexicon |-> lexicon]
    /\ frozen_in' = <<>>
    /\ UNCHANGED derived
    /\ GenUnchanged

\* generator.sample = Sample.thawed(generator.sample.frozen())
NewThawed ==
    /\ Idle
    /\ sample # None
    /\ derived < MaxDerivations
    /\ LET f == Frozen(sample)
           r == Thawed(f)
       IN  /\ outcome' = r.error
           /\ sample' = IF r.error = "ok" THEN r.s ELSE sample
           /\ frozen_in' = f
    /\ origin' = "thawed"
    /\ derived' = derived + 1
    /\ UNCHANGED input
    /\ GenUnchanged

\* generator.sample = Sample.duplicated(mapping), the mapping holding the
\* sample's content in an order of the caller's
NewDuplicated(rd, rc) ==
    /\ Idle
    /\ sample # None
    /\ derived < MaxDerivations
    /\ LET r == Duplicated(Reordered(sample, rd, rc))
       IN  /\ outcome' = r.error
           /\ sample' = r.s
    /\ origin' = "duplicated"
    /\ frozen_in' = Frozen(sample)
    /\ derived' = derived + 1
    /\ UNCHANGED input
    /\ GenUnchanged

\* Generator.default(**args): the Generator it yields
Default(key) ==
    /\ Idle
    /\ sample # None
    /\ derived < MaxDerivations
    /\ LET r == Duplicated(Update(sample, key))
       IN  /\ outcome' = r.error
           /\ sample' = r.s
    /\ origin' = "default"
    /\ frozen_in' = Frozen(sample)
    /\ derived' = derived + 1
    /\ UNCHANGED input
    /\ GenUnchanged

\* an argument the caller did not give
Absent == -1

NoArgs == [sentence_len |-> Absent, paragraph_len |-> Absent, incipit |-> FALSE,
           amount |-> 0, length |-> Absent]
NoSent == [sentence_len |-> 0, incipit |-> FALSE, words |-> <<>>, previous |-> <<>>,
           last_word |-> <<>>, word_delimiter |-> "", todo |-> 0, word_len |-> 0,
           closest |-> 0, word |-> <<>>]
NoSents == [incipit |-> FALSE, yielded |-> 0, todo |-> 0]
NoPara == [paragraph_len |-> 0, words_count |-> 0, paragraph |-> <<>>]
NoParas == [incipit |-> FALSE, yielded |-> 0, todo |-> 0]

Init ==
    /\ sample = None
    /\ outcome = "none"
    /\ origin = "none"
    /\ input = [text |-> <<>>, lexicon |-> <<>>]
    /\ frozen_in = <<>>
    /\ derived = 0
    /\ op = "idle"
    /\ pc = "idle"
    /\ args = NoArgs
    /\ sent = NoSent
    /\ sents = NoSents
    /\ para = NoPara
    /\ paras = NoParas
    /\ result = None

\* Sample.cooked on any analysed input
CookAny ==
    /\ origin = "none"
    /\ \E in \in Analysed : NewCooked(in.text, in.lexicon)

\* Sample.cooked on one of the corpora the generator is run on
CookCorpus ==
    /\ origin = "none"
    /\ \E in \in Corpora : NewCooked(in.text, in.lexicon)

NextSample ==
    \/ CookAny
    \/ NewThawed
    \/ \E rd \in BOOLEAN, rc \in BOOLEAN : NewDuplicated(rd, rc)
    \/ \E key \in Overrides : Default(key)

SpecSample == Init /\ [][NextSample]_vars

(***************************************************************************)
(* Generator                                                               *)
(***************************************************************************)
Last(l) == l[Len(l)]
Max2(a, b) == IF a >= b THEN a ELSE b

\* the last key, in the dictionary's iteration order, that no key is closer than
ClosestLast(dictionary, word_len) ==
    LET ks == Keys(dictionary)
        i == CHOOSE i \in 1..Len(ks) :
                 /\ \A j \in 1..Len(ks) : Abs(ks[i] - word_len) <= Abs(ks[j] - word_len)
                 /\ \A j \in (i + 1)..Len(ks) : Abs(ks[j] - word_len) > Abs(ks[i] - word_len)
    IN  ks[i]

\* min(list(dictionary), key=lambda x: abs(x - word_len)): the first key, in the
\* dictionary's iteration order, that no key is closer than
Closest(dictionary, word_len) ==
    LET ks == Keys(dictionary)
        i == CHOOSE i \in 1..Len(ks) :
                 /\ \A j \in 1..Len(ks) : Abs(ks[i] - word_len) <= Abs(ks[j] - word_len)
                 /\ \A j \in 1..(i - 1) : Abs(ks[j] - word_len) > Abs(ks[i] - word_len)
    IN  ks[i]

\* set(chains) & set(starts)
PreviousSet(s) == KeySet(s.chains) \cap SeqToSet(s.starts)

\* last_word as generate_sentence sets it before the walk
InitialLastWord(words) == <<>>

\* generate_sentence up to its loop: the locals, or the error raised.
\* words[-1] raises IndexError on an empty list.
SentenceStart(s, sentence_len, incipit) ==
    LET words == IF incipit THEN Take(Split(s.incipit), sentence_len) ELSE <<>>
    IN  IF incipit /\ words = <<>> THEN [error |-> "IndexError", sent |-> NoSent]
        ELSE [error |-> "ok",
              sent |-> [sentence_len |-> sentence_len,
                        incipit |-> incipit,
                        words |-> words,
                        previous |-> <<>>,
                        last_word |-> InitialLastWord(words),
                        word_delimiter |->
                            IF incipit /\ InStr(Last(Last(words)), s.word_delimiters)
                            THEN Last(Last(words)) ELSE "",
                        todo |-> Max2(0, sentence_len - Len(words)),
                        word_len |-> 0,
                        closest |-> 0,
                        word |-> <<>>]]

\* the sentence generate_sentence returns: (len(words), text)
Sentence(words, word_delimiter) ==
    <<Len(words),
      RStrip(Capitalize(Join(words)),
             IF word_delimiter = "" THEN {} ELSE {word_delimiter}) \o <<".">> >>

\* the condition of the anti-repetition loop
Repeats(bucket, word, last_word) == word = last_word /\ Len(bucket) > 1

\* args as generate_sentences passes them on after its first sentence
AfterFirstSentence(frame) == [frame EXCEPT !.incipit = FALSE]

\* args passed on with the caller's incipit kept
IncipitKept(frame) == frame

\* args as generate_paragraphs passes them on after its first paragraph
AfterFirstParagraph(frame) == [frame EXCEPT !.incipit = FALSE]

\* the number of further items a generator yields after its first: irange(amount - 1)
Further(amount) == Max2(0, amount - 1)

\* enter generate_sentence(sentence_len=n, incipit=incipit)
EnterSentence(n, incipit) ==
    LET r == SentenceStart(sample, n, incipit)
    IN  /\ sent' = r.sent
        /\ pc' = IF r.error = "ok" THEN "walk" ELSE "raised"
        /\ result' = IF r.error = "ok" THEN None ELSE [error |-> r.error]

\* the sentence lengths a call with these arguments may use: the one given, or
\* 1 + ceil(abs(normalvariate(mean, sigma))), any length from 1 up
SentenceLens(a, max) == IF a.sentence_len = Absent THEN 1..Max2(1, max) ELSE {a.sentence_len}
ParagraphLens(a) ==
    IF a.paragraph_len = Absent THEN 1..Max2(1, MaxParagraphLen) ELSE {a.paragraph_len}

InnerMax == IF op \in {"generate_paragraph", "generate_paragraphs"}
            THEN MaxInnerSentenceLen ELSE MaxSentenceLen

SampleUnchanged == UNCHANGED <<sample, outcome, origin, input, frozen_in, derived>>

Ready ==
    /\ Idle
    /\ sample # None

\* generator.generate_word(length)
GenerateWord(length) ==
    /\ Ready
    /\ \E l \in (IF length = Absent \/ length = 0 THEN KeySet(sample.dictionary)
                 ELSE {length}) :
          IF HasKey(sample.dictionary, l)
          THEN \E w \in SeqToSet(Get(sample.dictionary, l)) : result' = [value |-> w]
          ELSE result' = None
    /\ op' = "generate_word"
    /\ pc' = "returned"
    /\ args' = [NoArgs EXCEPT !.length = length]
    /\ UNCHANGED <<sent, sents, para, paras>>
    /\ SampleUnchanged

\* generator.generate_sentence(sentence_len=n, incipit=incipit)
CallGenerateSentence(a) ==
    /\ Ready
    /\ op' = "generate_sentence"
    /\ args' = a
    /\ \E n \in SentenceLens(a, MaxSentenceLen) : EnterSentence(n, a.incipit)
    /\ UNCHANGED <<sents, para, paras>>
    /\ SampleUnchanged

\* list(generator.generate_sentences(amount, **args)) up to the first sentence
CallGenerateSentences(amount, a) ==
    /\ Ready
    /\ op' = "generate_sentences"
    /\ args' = [a EXCEPT !.amount = amount]
    /\ sents' = [incipit |-> a.incipit, yielded |-> 0, todo |-> Further(amount)]
    /\ \E n \in SentenceLens(a, MaxSentenceLen) : EnterSentence(n, a.incipit)
    /\ UNCHANGED <<para, paras>>
    /\ SampleUnchanged

\* generator.generate_paragraph(**args) up to the first sentence
CallGenerateParagraph(a) ==
    /\ Ready
    /\ op' = "generate_paragraph"
    /\ args' = a
    /\ \E p \in ParagraphLens(a) :
          /\ para' = [paragraph_len |-> p, words_count |-> 0, paragraph |-> <<>>]
          /\ sents' = [incipit |-> a.incipit, yielded |-> 0, todo |-> Further(p)]
    /\ \E n \in SentenceLens(a, MaxInnerSentenceLen) : EnterSentence(n, a.incipit)
    /\ UNCHANGED paras
    /\ SampleUnchanged

\* list(generator.generate_paragraphs(amount, **args)) up to the first sentence
CallGenerateParagraphs(amount, a) ==
    /\ Ready
    /\ op' = "generate_paragraphs"
    /\ args' = [a EXCEPT !.amount = amount]
    /\ paras' = [incipit |-> a.incipit, yielded |-> 0, todo |-> Further(amount)]
    /\ \E p \in ParagraphLens(a) :
          /\ para' = [paragraph_len |-> p, words_count |-> 0, paragraph |-> <<>>]
          /\ sents' = [incipit |-> a.incipit, yielded |-> 0, todo |-> Further(p)]
    /\ \E n \in SentenceLens(a, MaxInnerSentenceLen) : EnterSentence(n, a.incipit)
    /\ SampleUnchanged

\* one iteration of the walk up to the first choice of a word
WalkStep ==
    /\ pc = "walk"
    /\ sent.todo > 0
    /\ IF ~HasKey(sample.chains, sent.previous) /\ PreviousSet(sample) = {}
       THEN /\ pc' = "raised"
            /\ result' = [error |-> "ValueError"]
            /\ UNCHANGED sent
       ELSE \E previous \in (IF HasKey(sample.chains, sent.previous)
                             THEN {sent.previous} ELSE PreviousSet(sample)) :
            \E chain \in SeqToSet(Get(sample.chains, previous)) :
               LET closest == Closest(sample.dictionary, chain[1])
               IN  \E word \in SeqToSet(Get(sample.dictionary, closest)) :
                      /\ sent' = [sent EXCEPT
                                    !.previous = previous,
                                    !.word_len = chain[1],
                                    !.word_delimiter =
                                        IF InStr(chain[2], sample.sentence_delimiters)
                                           \/ chain[2] = ""
                                        THEN "" ELSE chain[2],
                                    !.closest = closest,
                                    !.word = word]
                      /\ pc' = "resample"
                      /\ UNCHANGED result
    /\ UNCHANGED <<op, args, sents, para, paras>>
    /\ SampleUnchanged

\* one iteration of the loop "while word == last_word and len(bucket) > 1"
Resample ==
    /\ pc = "resample"
    /\ Repeats(Get(sample.dictionary, sent.closest), sent.word, sent.last_word)
    /\ \E word \in SeqToSet(Get(sample.dictionary, sent.closest)) :
          sent' = [sent EXCEPT !.word = word]
    /\ UNCHANGED <<op, pc, args, sents, para, paras, result>>
    /\ SampleUnchanged

\* the rest of the iteration once the loop is left
AppendWord ==
    /\ pc = "resample"
    /\ ~Repeats(Get(sample.dictionary, sent.closest), sent.word, sent.last_word)
    /\ sent' = [sent EXCEPT
                  !.last_word = sent.word,
                  !.words = Append(sent.words,
                                   sent.word \o (IF sent.word_delimiter = "" THEN <<>>
                                                 ELSE <<sent.word_delimiter>>)),
                  !.previous = <<sent.previous[2], sent.word_len>>,
                  !.todo = sent.todo - 1]
    /\ pc' = "walk"
    /\ UNCHANGED <<op, args, sents, para, paras, result>>
    /\ SampleUnchanged

\* generate_sentence returns; generate_sentences yields what it returned and,
\* inside generate_paragraph, the paragraph's loop body runs
SentenceReturn ==
    /\ pc = "walk"
    /\ sent.todo = 0
    /\ LET r == Sentence(sent.words, sent.word_delimiter)
       IN  /\ result' = [value |-> r]
           /\ IF op = "generate_sentence"
              THEN /\ pc' = "returned"
                   /\ UNCHANGED <<sents, para>>
              ELSE /\ sents' = [AfterFirstSentence(sents) EXCEPT !.yielded = sents.yielded + 1]
                   /\ pc' = "yielded"
                   /\ IF op = "generate_sentences"
                      THEN UNCHANGED para
                      ELSE para' = [para EXCEPT
                                      !.words_count = para.words_count + r[1],
                                      !.paragraph = Append(para.paragraph, r[2])]
    /\ UNCHANGED <<op, args, sent, paras>>
    /\ SampleUnchanged

\* generate_sentences is resumed and calls generate_sentence again
NextSentence ==
    /\ pc = "yielded"
    /\ sents.todo > 0
    /\ sents' = [sents EXCEPT !.todo = sents.todo - 1]
    /\ \E n \in SentenceLens(args, InnerMax) : EnterSentence(n, sents.incipit)
    /\ UNCHANGED <<op, args, para, paras>>
    /\ SampleUnchanged

\* generate_sentences is resumed and ends; generate_paragraph returns, and
\* generate_paragraphs yields what it returned
SentencesEnd ==
    /\ pc = "yielded"
    /\ sents.todo = 0
    /\ IF op = "generate_sentences"
       THEN /\ pc' = "returned"
            /\ result' = None
            /\ UNCHANGED paras
       ELSE /\ result' = [value |-> <<para.paragraph_len, para.words_count,
                                      Join(para.paragraph)>>]
            /\ IF op = "generate_paragraph"
               THEN /\ pc' = "returned"
                    /\ UNCHANGED paras
               ELSE /\ pc' = "paragraph_yielded"
                    /\ paras' = [AfterFirstParagraph(paras) EXCEPT
                                   !.yielded = paras.yielded + 1]
    /\ UNCHANGED <<op, args, sent, sents, para>>
    /\ SampleUnchanged

\* generate_paragraphs is resumed and calls generate_paragraph again
NextParagraph ==
    /\ pc = "paragraph_yielded"
    /\ paras.todo > 0
    /\ paras' = [paras EXCEPT !.todo = paras.todo - 1]
    /\ \E p \in ParagraphLens(args) :
          /\ para' = [paragraph_len |-> p, words_count |-> 0, paragraph |-> <<>>]
          /\ sents' = [incipit |-> paras.incipit, yielded |-> 0, todo |-> Further(p)]
    /\ \E n \in SentenceLens(args, MaxInnerSentenceLen) : EnterSentence(n, paras.incipit)
    /\ UNCHANGED <<op, args>>
    /\ SampleUnchanged

\* generate_paragraphs is resumed and ends
ParagraphsEnd ==
    /\ pc = "paragraph_yielded"
    /\ paras.todo = 0
    /\ pc' = "returned"
    /\ result' = None
    /\ UNCHANGED <<op, args, sent, sents, para, paras>>
    /\ SampleUnchanged

\* the caller goes on after the call returned or raised
Done ==
    /\ pc \in {"returned", "raised"}
    /\ op' = "idle"
    /\ pc' = "idle"
    /\ args' = NoArgs
    /\ sent' = NoSent
    /\ sents' = NoSents
    /\ para' = NoPara
    /\ paras' = NoParas
    /\ result' = None
    /\ SampleUnchanged

\* the keyword arguments of the calls
SentenceArgs ==
    [sentence_len : {Absent} \cup 0..MaxSentenceLen, paragraph_len : {Absent},
     incipit : BOOLEAN, amount : {0}, length : {Absent}]
ParagraphArgs ==
    [sentence_len : {Absent} \cup 0..MaxInnerSentenceLen,
     paragraph_len : {Absent} \cup 0..MaxParagraphLen,
     incipit : BOOLEAN, amount : {0}, length : {Absent}]

Next ==
    \/ CookCorpus
    \/ NewThawed
    \/ \E length \in {Absent} \cup 0..MaxWordLen : GenerateWord(length)
    \/ \E a \in SentenceArgs : CallGenerateSentence(a)
    \/ \E amount \in 0..MaxAmount, a \in SentenceArgs : CallGenerateSentences(amount, a)
    \/ \E a \in ParagraphArgs : CallGenerateParagraph(a)
    \/ \E amount \in 0..MaxAmount, a \in ParagraphArgs : CallGenerateParagraphs(amount, a)
    \/ WalkStep
    \/ Resample
    \/ AppendWord
    \/ SentenceReturn
    \/ NextSentence
    \/ SentencesEnd
    \/ NextParagraph
    \/ ParagraphsEnd
    \/ Done

Spec == Init /\ [][Next]_vars

(***************************************************************************)
(* Properties                                                              *)
(***************************************************************************)
\* the space-separated words of a sentence text, its closing period left out
WordsOf(text) == Split(SubSeq(text, 1, Len(text) - 1))

\* a word of the word list without its trailing delimiters
Bare(word) == StripDelimiters(word, "", sample.word_delimiters)[1]

\* C1: generate_sentence(sentence_len=N), N >= 0, with or without incipit,
\* returns normally, reports N words and returns a text of N words.
C1_SentenceHasRequestedLength ==
    (op = "generate_sentence" /\ args.sentence_len # Absent) =>
        /\ pc # "raised"
        /\ pc = "returned" =>
              /\ result.value[1] = args.sentence_len
              /\ Len(WordsOf(result.value[2])) = args.sentence_len

\* C2: generate_sentences(N) yields exactly N sentences, and
\* generate_paragraph(paragraph_len=N) returns the count N, the join of exactly
\* N sentences and the number of their words.
C2_AmountOfSentences ==
    /\ (op = "generate_sentences" /\ pc = "returned") => sents.yielded = args.amount
    /\ (op = "generate_paragraph" /\ pc = "returned" /\ args.paragraph_len # Absent) =>
          /\ result.value[1] = args.paragraph_len
          /\ sents.yielded = args.paragraph_len
          /\ Len(para.paragraph) = args.paragraph_len
          /\ result.value[3] = Join(para.paragraph)
          /\ result.value[2] =
                SumSeq([i \in 1..Len(para.paragraph) |-> Len(WordsOf(para.paragraph[i]))])

\* C3: a Sample that was constructed, by whichever path, and is held by a
\* Generator has a non-empty dictionary and non-empty chains.
C3_HeldSampleIsValid ==
    sample # None => (sample.dictionary # <<>> /\ sample.chains # <<>>)

\* C4: analysis raises ValueError, and nothing else, when the lexicon holds no
\* word or the corpus yields no transition, and succeeds otherwise. Stated for
\* the inputs __init__ hands to the analysis, those with no empty argument.
C4_AnalysisErrors ==
    (origin = "cooked" /\ input.text # <<>> /\ input.lexicon # <<>>) =>
        LET no_words == Split(input.lexicon) = <<>>
            no_transitions ==
                Analyse(Tokens(input.text, SentenceDelimiters), WordDelimiters,
                        [chains |-> <<>>, starts |-> <<>>, previous |-> <<0, 0>>]).chains = <<>>
        IN  IF no_words \/ no_transitions THEN outcome = "ValueError" ELSE outcome = "ok"

\* C5: thawing the frozen form of a valid model succeeds and freezes to the
\* same value, and a model holding the same content in another insertion order
\* freezes to the same value.
C5_FreezeThawRoundTrip ==
    /\ (origin = "thawed" /\ Get(frozen_in, "dictionary") # <<>>
                          /\ Get(frozen_in, "chains") # <<>>) =>
          (outcome = "ok" /\ Frozen(sample) = frozen_in)
    /\ origin = "duplicated" => (outcome = "ok" /\ Frozen(sample) = frozen_in)

C5_Witness ==
    /\ origin = "duplicated"
    /\ outcome = "ok"
    /\ Len(sample.dictionary) > 1
    /\ Len(sample.chains) > 1
    /\ Keys(sample.dictionary) # Keys(Get(Frozen(sample), "dictionary"))
    /\ Keys(sample.chains) # Keys(Get(Frozen(sample), "chains"))

\* C6: generate_word(L) with L given returns None when L is no key of the
\* dictionary (0 included) and a word of length L of that bucket when it is.
C6_WordOfGivenLength ==
    (op = "generate_word" /\ args.length # Absent) =>
        IF HasKey(sample.dictionary, args.length)
        THEN /\ result # None
             /\ Len(result.value) = args.length
             /\ result.value \in SeqToSet(Get(sample.dictionary, args.length))
        ELSE result = None

\* C7: a word the walk chose from a bucket of more than one candidate differs
\* from the word before it in the sentence, be that word walked or seeded from
\* the incipit.
C7_NoAdjacentRepeat ==
    (pc = "walk" /\ sent.word # <<>> /\ Len(sent.words) >= 2
         /\ Len(Get(sample.dictionary, sent.closest)) > 1) =>
        Bare(sent.words[Len(sent.words)]) # Bare(sent.words[Len(sent.words) - 1])

\* C8: in generate_sentences and generate_paragraphs called with incipit=True
\* only the first sentence of the first element runs with incipit on.
C8_IncipitOnlyFirst ==
    (op \in {"generate_sentences", "generate_paragraph", "generate_paragraphs"}
         /\ pc \in {"walk", "resample"}
         /\ (sents.yielded > 0 \/ paras.yielded > 0)) =>
        (~sent.incipit /\ (sent.word = <<>> => sent.words = <<>>))

C8_Witness ==
    /\ op = "generate_paragraphs"
    /\ args.incipit
    /\ paras.yielded > 0
    /\ sents.yielded = 0
    /\ pc = "resample"
    /\ ~sent.incipit

\* the keys of the dictionary as close to the wanted length as the key used
EquallyClose == {k \in KeySet(sample.dictionary) :
                    Abs(k - sent.word_len) = Abs(sent.closest - sent.word_len)}

\* C9 as claimed: the bucket used is the closest to the wanted length, the
\* smaller key when two are equally close.
C9_SmallestKeyOnTie ==
    pc = "resample" =>
        /\ \A k \in KeySet(sample.dictionary) :
              Abs(sent.closest - sent.word_len) <= Abs(k - sent.word_len)
        /\ \A k \in EquallyClose : sent.closest <= k

\* C9 as amended: the bucket used is the closest to the wanted length, the
\* first in the dictionary's iteration order when two are equally close; that
\* is the smaller key in a thawed model.
C9_FirstKeyOnTie ==
    pc = "resample" =>
        /\ \A k \in KeySet(sample.dictionary) :
              Abs(sent.closest - sent.word_len) <= Abs(k - sent.word_len)
        /\ \A i, j \in 1..Len(sample.dictionary) :
              (sample.dictionary[i][1] \in EquallyClose /\ sample.dictionary[j][1] = sent.closest)
                  => j <= i
        /\ origin = "thawed" => \A k \in EquallyClose : sent.closest <= k

C9_Witness ==
    /\ pc = "resample"
    /\ origin = "thawed"
    /\ Cardinality(EquallyClose) > 1

\* C10: in the anti-repetition loop, a bucket of more than one candidate holds
\* a candidate that differs from the preceding word, so the loop can end.
C10_DifferentCandidateExists ==
    (pc = "resample" /\ Len(Get(sample.dictionary, sent.closest)) > 1) =>
        \E w \in SeqToSet(Get(sample.dictionary, sent.closest)) : w # sent.last_word

\* the rolling state of the word loop of _cook, collected each time it has just
\* been advanced past a word whose trailing delimiter is non-empty
RECURSIVE StatesAfterPunctuated(_, _, _)
StatesAfterPunctuated(tokens, wd, previous) ==
    IF tokens = <<>> THEN {}
    ELSE LET sw == StripDelimiters(Head(tokens), "", wd)
             word == sw[1]
             delimiter == sw[2]
             advanced == <<previous[2], Len(word)>>
         IN  IF word = <<>> THEN StatesAfterPunctuated(Tail(tokens), wd, previous)
             ELSE (IF delimiter # "" THEN {advanced} ELSE {})
                      \cup StatesAfterPunctuated(Tail(tokens), wd, advanced)

\* C11: after the analysis of a corpus, (0,0) is in starts and every other
\* state in starts is the rolling state reached right after a punctuated word.
C11_StartsFollowPunctuation ==
    (origin = "cooked" /\ outcome = "ok") =>
        /\ <<0, 0>> \in SeqToSet(sample.starts)
        /\ \A st \in SeqToSet(sample.starts) :
              st = <<0, 0>>
                  \/ st \in StatesAfterPunctuated(Tokens(input.text, SentenceDelimiters),
                                                  Us(WordDelimiters), <<0, 0>>)

====
